---- MODULE Spec2Model ----
(***************************************************************************)
(* A model of the explorer UI's decision logic.                            *)
(*                                                                         *)
(*   Spec        the Connect component (src/components/Connect/index.tsx): *)
(*               connectClient, its two callers, the subscription          *)
(*               callbacks and the redux store slots they write.           *)
(*   SpecFormat  the precision resolver of the account view                *)
(*               (src/rpc/indexer/index.ts, AccountDetail): the metadata   *)
(*               maps, formatBalance and formatSubaccountAsset.            *)
(*   SpecPage    the pagination of the IBC tokens of the account view:     *)
(*               the page window, handlePageChange,                        *)
(*               handleItemsPerPageChange and the two reset effects.       *)
(*   SpecDecode  the decode effect of the account view: the raw            *)
(*               transaction list and the decoded set.                     *)
(*   SpecClient  the methods of the indexer client                         *)
(*               (src/rpc/indexer/index.ts, IndexerClient) and of the      *)
(*               metadata client (src/rpc/metadata/index.ts) against the   *)
(*               outcomes of fetch.                                        *)
(*   SpecLoad    the load effect of the account view: the four chain       *)
(*               queries, the indexer and metadata calls that follow, and  *)
(*               the state they set; SpecLoadFair adds that every awaited  *)
(*               call settles.                                             *)
(*   SpecRow     the rows of the native token table of the account view:   *)
(*               the raw total of the available and delegated amounts.     *)
(***************************************************************************)
EXTENDS Integers, Sequences, FiniteSets, TLC

(***************************************************************************)
(* Bounds                                                                  *)
(***************************************************************************)
\* number of connectClient invocations in one behaviour
MaxInvocations == 3
\* number of events the two streams deliver in one behaviour
MaxEvents == 2
\* runs of the mount effect (React runs it once, and twice when the tree is
\* wrapped in StrictMode during development)
EffectRuns == 2

Invocations == 1..MaxInvocations

\* null of the store slots (a handle, a client or an event that is absent)
Null == 0

\* DEFAULT_RPC_ADDRESS (utils/constant), and the empty string that the
\* guard of line 58 rejects
EmptyAddress == ""
DEFAULT_RPC_ADDRESS == "https://dydx2.forcast.money"
Addresses == {EmptyAddress, DEFAULT_RPC_ADDRESS}

\* the seven parameter slots of paramsSlice reset by connectClient
ParamNames ==
    {"staking", "mint", "distribution", "slashing",
     "govVoting", "govDeposit", "govTally"}

VARIABLES
    \* ---- Connect: configuration ----
    defaultRpc,     \* removeTrailingSlash(DEFAULT_RPC_ADDRESS)
    \* ---- Connect: component state (useState) ----
    state,          \* 'initial' | 'submitting' | 'success'
    error,          \* boolean error flag
    \* ---- Connect: redux store ----
    connectState,   \* state.connect.connectState
    tmClient,       \* state.connect.tmClient   (client id or Null)
    rpcAddress,     \* state.connect.rpcAddress
    subsNewBlock,   \* state.stream.subsNewBlock (handle id or Null)
    subsTxEvent,    \* state.stream.subsTxEvent  (handle id or Null)
    newBlock,       \* latest block slot
    txEvent,        \* latest transaction slot
    blockLog,       \* log written by addBlock
    txLog,          \* log written by addTransaction
    params,         \* the seven parameter slots
    \* ---- Connect: the invocations of connectClient ----
    pc,             \* position of each invocation
    closure,        \* values captured by the closure each invocation runs in
    result,         \* how each invocation ended
    effectRuns,     \* runs of the mount effect so far
    \* ---- Connect: collaborators (rpc client library) ----
    connected,      \* clients created and not disconnected
    createdNewBlock,\* new-block handles created by subscribeNewBlock
    createdTx,      \* transaction handles created by subscribeTx
    activeNewBlock, \* new-block handles created and not unsubscribed
    activeTx,       \* transaction handles created and not unsubscribed
    \* ---- Connect: observation ----
    validateCalls,  \* invocations that called validateConnection
    deliveredBlocks,\* new-block events in delivery order
    deliveredTxs,   \* transaction events in delivery order
    nEvents,        \* events delivered so far
    \* ---- AccountDetail: precision resolver ----
    assetInfo,      \* the response of metadataClient.getAssetInfo
    assetInfoMap,   \* useState Map symbol -> AssetInfo, in insertion order
    denomExponentMap, \* useState Map key -> exponent
    lastFormat,     \* what the latest formatting call resolved
    \* ---- AccountDetail: pagination of the IBC tokens ----
    ibcTokens,      \* balances.filter(denom.includes('/')), in chain order
    itemsPerPage,   \* useState(10)
    currentPage,    \* useState(1)
    pendingEffects, \* effects of the last render that have not run yet
    pageRequest,    \* the page handlePageChange was last called with
    \* ---- AccountDetail: transactions ----
    txData,         \* the transactions getTxsBySender answers with
    transactions,   \* useState([]): the raw transaction list
    decodedTxs,     \* useState([]): the decoded set
    decodePending,  \* the decode effect of the last render has not run yet
    \* ---- indexer and metadata clients ----
    lastCall,       \* the latest call of a client method and how it settled
    \* ---- AccountDetail: load effect ----
    routeAddress,   \* useParams().address (NoAddress when absent)
    account,        \* useState(null)
    balances,       \* useState([])
    stakedBalance,  \* useState(null)
    loading,        \* useState(true)
    subaccountAssets, \* useState([])
    toasts,         \* error toasts raised
    pcLoad,         \* position of each run of the load effect
    loadAddress,    \* the address each run closed over
    lastSettle,     \* the status the indexer answered getAllSubaccountAssets
                    \* with, when that call was the latest to settle
    \* ---- AccountDetail: native token rows ----
    lastTotal       \* the native token row rendered last

configVars == <<defaultRpc>>
localVars == <<state, error>>
storeVars ==
    <<connectState, tmClient, rpcAddress, subsNewBlock, subsTxEvent,
      newBlock, txEvent, blockLog, txLog, params>>
invVars == <<pc, closure, result, effectRuns>>
libVars == <<connected, createdNewBlock, createdTx, activeNewBlock, activeTx>>
obsVars == <<validateCalls, deliveredBlocks, deliveredTxs, nEvents>>
connectVars ==
    <<configVars, localVars, storeVars, invVars, libVars, obsVars>>
formatVars == <<assetInfo, assetInfoMap, denomExponentMap, lastFormat>>

pageVars ==
    <<ibcTokens, itemsPerPage, currentPage, pendingEffects, pageRequest>>

decodeVars == <<txData, transactions, decodedTxs, decodePending>>

clientVars == <<lastCall>>
loadVars ==
    <<routeAddress, account, balances, stakedBalance, loading, subaccountAssets,
      toasts, pcLoad, loadAddress, lastSettle>>

\* what the Connect component leaves alone
notConnectVars ==
    <<formatVars, pageVars, decodeVars, clientVars, loadVars, lastTotal>>
\* what the precision resolver leaves alone
notFormatVars ==
    <<connectVars, pageVars, decodeVars, clientVars, loadVars, lastTotal>>
\* what the pagination leaves alone
notPageVars ==
    <<connectVars, formatVars, decodeVars, clientVars, loadVars, lastTotal>>
\* what the decoding of the transactions leaves alone
notDecodeVars ==
    <<connectVars, formatVars, pageVars, clientVars, loadVars, lastTotal>>
\* what a call of a client method leaves alone
notClientVars ==
    <<connectVars, formatVars, pageVars, decodeVars, loadVars, lastTotal>>
\* what the load effect leaves alone: it writes the transactions and the
\* metadata maps besides its own state
notLoadVars ==
    <<connectVars, pageVars, clientVars, assetInfo, lastFormat, txData,
      decodedTxs, lastTotal>>

vars ==
    <<connectVars, formatVars, pageVars, decodeVars, clientVars, loadVars,
      lastTotal>>

(***************************************************************************)
(* Connect                                                                 *)
(***************************************************************************)
NoClosure == [subsNewBlock |-> Null, subsTxEvent |-> Null,
              tmClient |-> Null, rpcAddress |-> EmptyAddress]

\* useSelector: the closure connectClient runs in holds the store values of
\* the render that created it
CurrentClosure(addr) ==
    [subsNewBlock |-> subsNewBlock, subsTxEvent |-> subsTxEvent,
     tmClient |-> tmClient, rpcAddress |-> addr]

ClearedParams == [p \in ParamNames |-> Null]

LoadedParams == [p \in ParamNames |-> 1]

InitConnectWith(address) ==
    /\ defaultRpc = address
    /\ state = "initial"
    /\ error = FALSE
    /\ connectState = FALSE
    /\ tmClient = Null
    /\ rpcAddress = EmptyAddress
    /\ subsNewBlock = Null
    /\ subsTxEvent = Null
    /\ newBlock = Null
    /\ txEvent = Null
    /\ blockLog = <<>>
    /\ txLog = <<>>
    /\ params = ClearedParams
    /\ pc = [i \in Invocations |-> "idle"]
    /\ closure = [i \in Invocations |-> NoClosure]
    /\ result = [i \in Invocations |-> "none"]
    /\ effectRuns = 0
    /\ connected = {}
    /\ createdNewBlock = {}
    /\ createdTx = {}
    /\ activeNewBlock = {}
    /\ activeTx = {}
    /\ validateCalls = {}
    /\ deliveredBlocks = <<>>
    /\ deliveredTxs = <<>>
    /\ nEvents = 0

InitConnect == \E address \in Addresses : InitConnectWith(address)

\* the invocation that starts next
NextInvocation ==
    CHOOSE i \in Invocations :
        /\ pc[i] = "idle"
        /\ \A j \in Invocations : j < i => pc[j] # "idle"

CanInvoke == \E i \in Invocations : pc[i] = "idle"

\* setError(true); setState('initial'); return     (lines 59-61, 66-68,
\* 104-106, 130-132)
Fail(i, how) ==
    /\ error' = TRUE
    /\ state' = "initial"
    /\ pc' = [pc EXCEPT ![i] = "done"]
    /\ result' = [result EXCEPT ![i] = how]

\* connectClient up to its first await (lines 53-64)
connectClient(i, addr) ==
    /\ closure' = [closure EXCEPT ![i] = CurrentClosure(addr)]
    /\ IF addr = EmptyAddress
       THEN /\ Fail(i, "empty")
            /\ UNCHANGED validateCalls
       ELSE /\ error' = FALSE
            /\ state' = "submitting"
            /\ pc' = [pc EXCEPT ![i] = "validating"]
            /\ validateCalls' = validateCalls \cup {i}
            /\ UNCHANGED result
    /\ UNCHANGED <<storeVars, libVars, deliveredBlocks, deliveredTxs, nEvents>>

\* the mount effect (lines 136-142); `state` there is the value of the first
\* render, 'initial'.  The effect runs while the component mounts, before
\* any awaited call of an earlier run has settled.  Nothing in connectClient
\* or in the effect keeps a second run from starting while the first one is
\* suspended at an await.
AutoConnect ==
    /\ effectRuns < EffectRuns
    /\ CanInvoke
    /\ \A j \in Invocations :
          /\ pc[j] \in {"idle", "validating", "done"}
          /\ result[j] \in {"none", "empty"}
    /\ effectRuns' = effectRuns + 1
    /\ connectClient(NextInvocation, defaultRpc)
    /\ UNCHANGED configVars
    /\ UNCHANGED notConnectVars

\* the Retry button (lines 184-204), rendered while the error flag is set
Retry ==
    /\ error = TRUE
    /\ CanInvoke
    /\ UNCHANGED effectRuns
    /\ connectClient(NextInvocation, defaultRpc)
    /\ UNCHANGED configVars
    /\ UNCHANGED notConnectVars

\* ValidateFailed with the validity test placed after the clean-up
ValidateFailedAfterCleanUp(i) ==
    /\ pc[i] = "validating"
    /\ \E how \in {"invalid", "validateThrew"} : Fail(i, how)
    /\ activeNewBlock' = activeNewBlock \ {closure[i].subsNewBlock}
    /\ subsNewBlock' =
          IF closure[i].subsNewBlock # Null THEN Null ELSE subsNewBlock
    /\ activeTx' = activeTx \ {closure[i].subsTxEvent}
    /\ subsTxEvent' =
          IF closure[i].subsTxEvent # Null THEN Null ELSE subsTxEvent
    /\ connected' = connected \ {closure[i].tmClient}
    /\ newBlock' = Null
    /\ txEvent' = Null
    /\ params' = [p \in ParamNames |-> Null]
    /\ UNCHANGED <<connectState, tmClient, rpcAddress, blockLog, txLog,
                   createdNewBlock, createdTx, obsVars, closure, effectRuns>>
    /\ UNCHANGED configVars
    /\ UNCHANGED notConnectVars

\* validateConnection resolved to false or threw (lines 64-69, 128-133)
ValidateFailed(i) ==
    /\ pc[i] = "validating"
    /\ \E how \in {"invalid", "validateThrew"} : Fail(i, how)
    /\ UNCHANGED <<storeVars, libVars, obsVars, closure, effectRuns>>
    /\ UNCHANGED configVars
    /\ UNCHANGED notConnectVars

\* lines 72-79: unsubscribe the handles the closure holds
CleanUpSubscriptions(c) ==
    /\ activeNewBlock' = activeNewBlock \ {c.subsNewBlock}
    /\ subsNewBlock' = IF c.subsNewBlock # Null THEN Null ELSE subsNewBlock
    /\ activeTx' = activeTx \ {c.subsTxEvent}
    /\ subsTxEvent' = IF c.subsTxEvent # Null THEN Null ELSE subsTxEvent

\* lines 80-86: disconnect the client the closure holds
DisconnectPrevious(c) ==
    connected' = connected \ {c.tmClient}

\* lines 88-99: reset stream data and parameters data
ResetStreamAndParams ==
    /\ newBlock' = Null
    /\ txEvent' = Null
    /\ params' = ClearedParams

\* validateConnection resolved to true: lines 71-101, up to the await of
\* connectWebsocketClient
ValidateOk(i) ==
    /\ pc[i] = "validating"
    /\ CleanUpSubscriptions(closure[i])
    /\ DisconnectPrevious(closure[i])
    /\ ResetStreamAndParams
    /\ pc' = [pc EXCEPT ![i] = "connecting"]
    /\ UNCHANGED <<localVars, connectState, tmClient, rpcAddress, blockLog,
                   txLog, closure, result, effectRuns, createdNewBlock,
                   createdTx, obsVars>>
    /\ UNCHANGED configVars
    /\ UNCHANGED notConnectVars

\* connectWebsocketClient resolved to null or threw (lines 101-107, 128-133)
ConnectFailed(i) ==
    /\ pc[i] = "connecting"
    /\ \E how \in {"noClient", "connectThrew"} : Fail(i, how)
    /\ UNCHANGED <<storeVars, libVars, obsVars, closure, effectRuns>>
    /\ UNCHANGED configVars
    /\ UNCHANGED notConnectVars

\* lines 109-111
StoreClient(i) ==
    /\ connectState' = TRUE
    /\ tmClient' = i
    /\ rpcAddress' = closure[i].rpcAddress

\* connectWebsocketClient resolved to a client; lines 109-127 run without an
\* await.  nb and tx say whether subscribeNewBlock and subscribeTx return a
\* handle or throw.  The client of invocation i and its handles are named i.
ConnectOk(i) ==
    /\ pc[i] = "connecting"
    /\ connected' = connected \cup {i}
    /\ StoreClient(i)
    /\ \E nb \in {"handle", "throw"}, tx \in {"handle", "throw"} :
         /\ createdNewBlock' =
               IF nb = "handle" THEN createdNewBlock \cup {i}
               ELSE createdNewBlock
         /\ activeNewBlock' =
               IF nb = "handle" THEN activeNewBlock \cup {i}
               ELSE activeNewBlock
         /\ createdTx' =
               IF nb = "handle" /\ tx = "handle" THEN createdTx \cup {i}
               ELSE createdTx
         /\ activeTx' =
               IF nb = "handle" /\ tx = "handle" THEN activeTx \cup {i}
               ELSE activeTx
         /\ IF nb = "handle" /\ tx = "handle"
            THEN /\ subsNewBlock' = i
                 /\ subsTxEvent' = i
                 /\ state' = "success"
                 /\ pc' = [pc EXCEPT ![i] = "done"]
                 /\ result' = [result EXCEPT ![i] = "success"]
                 /\ UNCHANGED error
            ELSE /\ Fail(i, IF nb = "throw" THEN "subscribeNewBlockThrew"
                                           ELSE "subscribeTxThrew")
                 /\ UNCHANGED <<subsNewBlock, subsTxEvent>>
    /\ UNCHANGED <<newBlock, txEvent, blockLog, txLog, params, closure,
                   effectRuns, obsVars>>
    /\ UNCHANGED configVars
    /\ UNCHANGED notConnectVars

\* streamSlice reducers addBlock / addTransaction: append to the log
addBlock(log, event) == Append(log, event)

addTransaction(log, event) == Append(log, event)

\* NewBlockCallback without dispatch(addBlock(event))
NewBlockCallbackNoLog(event) ==
    /\ newBlock' = event
    /\ UNCHANGED <<blockLog, txEvent, txLog>>

\* callback passed to subscribeNewBlock (lines 114-117)
NewBlockCallback(event) ==
    /\ newBlock' = event
    /\ blockLog' = addBlock(blockLog, event)
    /\ UNCHANGED <<txEvent, txLog>>

\* callback passed to subscribeTx (lines 119-122)
TxCallback(event) ==
    /\ txEvent' = event
    /\ txLog' = addTransaction(txLog, event)
    /\ UNCHANGED <<newBlock, blockLog>>

\* a subscription delivers while it is subscribed and its client connected
DeliverNewBlock(h) ==
    /\ h \in activeNewBlock
    /\ h \in connected
    /\ nEvents < MaxEvents
    /\ nEvents' = nEvents + 1
    /\ NewBlockCallback(nEvents + 1)
    /\ deliveredBlocks' = Append(deliveredBlocks, nEvents + 1)
    /\ UNCHANGED <<localVars, connectState, tmClient, rpcAddress,
                   subsNewBlock, subsTxEvent, params, invVars, libVars,
                   validateCalls, deliveredTxs>>
    /\ UNCHANGED configVars
    /\ UNCHANGED notConnectVars

DeliverTx(h) ==
    /\ h \in activeTx
    /\ h \in connected
    /\ nEvents < MaxEvents
    /\ nEvents' = nEvents + 1
    /\ TxCallback(nEvents + 1)
    /\ deliveredTxs' = Append(deliveredTxs, nEvents + 1)
    /\ UNCHANGED <<localVars, connectState, tmClient, rpcAddress,
                   subsNewBlock, subsTxEvent, params, invVars, libVars,
                   validateCalls, deliveredBlocks>>
    /\ UNCHANGED configVars
    /\ UNCHANGED notConnectVars

\* the parameter views query the stored client and cache the chain
\* parameters of the connection
LoadParams ==
    /\ connectState = TRUE
    /\ tmClient \in connected
    /\ params = ClearedParams
    /\ params' = LoadedParams
    /\ UNCHANGED <<localVars, connectState, tmClient, rpcAddress,
                   subsNewBlock, subsTxEvent, newBlock, txEvent, blockLog,
                   txLog, invVars, libVars, obsVars>>
    /\ UNCHANGED configVars
    /\ UNCHANGED notConnectVars

NextConnect ==
    \/ AutoConnect
    \/ Retry
    \/ \E i \in Invocations : ValidateFailed(i)
    \/ \E i \in Invocations : ValidateOk(i)
    \/ \E i \in Invocations : ConnectFailed(i)
    \/ \E i \in Invocations : ConnectOk(i)
    \/ \E h \in Invocations : DeliverNewBlock(h)
    \/ \E h \in Invocations : DeliverTx(h)
    \/ LoadParams

(***************************************************************************)
(* AccountDetail: precision resolver                                       *)
(***************************************************************************)
\* number of records in a metadata response
MaxSymbols == 2

\* a field of AssetInfo that is absent (undefined or null for `??`)
Undefined == -1000

\* strings are sequences of characters
Str_USD == <<"U", "S", "D">>
Str_USDC == <<"U", "S", "D", "C">>
Str_ETH == <<"E", "T", "H">>
Str_uusdc == <<"u", "u", "s", "d", "c">>
Str_usd == <<"u", "s", "d">>
Str_adydx == <<"a", "d", "y", "d", "x">>

\* symbols the metadata service answers with and positions carry
SymbolNames == {Str_USD, Str_USDC, Str_ETH}
\* denoms of the chain balances
Denoms == {Str_uusdc, Str_USDC, Str_usd, Str_adydx}

\* the balances the chain answers with (amounts are decimal strings of
\* integers, held as the integers they denote): one amount of every denom,
\* and a second amount of uusdc
Balances ==
    [amount : {1500000}, denom : Denoms]
        \cup [amount : {1500000, 25}, denom : {Str_uusdc}]

\* the asset positions the indexer answers with
Positions == [symbol : SymbolNames, size : {1500000}]

\* the records of the metadata service: every field may be absent, and a
\* precision may be negative, zero or positive
AssetInfos ==
    [atomicResolution : {Undefined, -1, 1},
     denomExponent : {Undefined, 0},
     decimals : {Undefined, 3}]

\* String.prototype.toLowerCase on one character
LowerChar(c) ==
    CASE c = "U" -> "u"
      [] c = "S" -> "s"
      [] c = "D" -> "d"
      [] c = "C" -> "c"
      [] c = "E" -> "e"
      [] c = "T" -> "t"
      [] c = "H" -> "h"
      [] OTHER -> c

toLowerCase(str) == [k \in 1..Len(str) |-> LowerChar(str[k])]

\* String.prototype.includes
includes(str, search) ==
    \E k \in 0..(Len(str) - Len(search)) :
        SubSeq(str, k + 1, k + Len(search)) = search

\* Object.entries(assetInfo): records with distinct symbols, in the order
\* of the response
Responses ==
    {r \in UNION {[1..n -> [symbol : SymbolNames, info : AssetInfos]] :
                    n \in 0..MaxSymbols} :
        \A a, b \in 1..Len(r) : a # b => r[a].symbol # r[b].symbol}

EmptyMap == [k \in {} |-> Undefined]

\* Map.prototype.get on denomExponentMap
MapGet(map, key) == IF key \in DOMAIN map THEN map[key] ELSE Undefined

\* Map.prototype.set on denomExponentMap
MapSet(map, key, value) ==
    [k \in DOMAIN map \cup {key} |-> IF k = key THEN value ELSE map[k]]

\* Map.prototype.get on assetInfoMap; Undefined when the symbol has no record
InfoGet(map, symbol) ==
    IF \E k \in 1..Len(map) : map[k].symbol = symbol
    THEN (CHOOSE e \in {map[k] : k \in 1..Len(map)} : e.symbol = symbol).info
    ELSE [atomicResolution |-> Undefined, denomExponent |-> Undefined,
          decimals |-> Undefined]

HasInfo(map, symbol) == \E k \in 1..Len(map) : map[k].symbol = symbol

\* info.atomicResolution ?? info.denomExponent ?? info.decimals
\* (lines 328-329, 406-407, 450-453)
ResolvePrecision(info) ==
    IF info.atomicResolution # Undefined THEN info.atomicResolution
    ELSE IF info.denomExponent # Undefined THEN info.denomExponent
    ELSE info.decimals

\* exponentMap of the load effect (lines 322-336)
RECURSIVE BuildExponentMap(_, _, _)
BuildExponentMap(entries, k, exponentMap) ==
    IF k > Len(entries) THEN exponentMap
    ELSE LET exponent == ResolvePrecision(entries[k].info)
         IN  IF exponent # Undefined /\ exponent > 0
             THEN BuildExponentMap(entries, k + 1,
                      MapSet(exponentMap, entries[k].symbol, exponent))
             ELSE BuildExponentMap(entries, k + 1, exponentMap)

\* the test of lines 401-405
FuzzyMatch(denom, symbol) ==
    LET denomLower == toLowerCase(denom)
        symbolLower == toLowerCase(symbol)
    IN  \/ denomLower = symbolLower
        \/ includes(denomLower, symbolLower)
        \/ includes(symbolLower, denomLower)

\* FuzzyLoop that keeps iterating after a usable match (no break)
RECURSIVE FuzzyLoopNoBreak(_, _, _, _, _)
FuzzyLoopNoBreak(denom, infoMap, k, exponent, expMap) ==
    IF k > Len(infoMap)
    THEN [exponent |-> exponent, denomExponentMap |-> expMap]
    ELSE IF FuzzyMatch(denom, infoMap[k].symbol)
         THEN LET e == ResolvePrecision(infoMap[k].info)
              IN  IF e # Undefined /\ e > 0
                  THEN FuzzyLoopNoBreak(denom, infoMap, k + 1, e,
                                        MapSet(expMap, denom, e))
                  ELSE FuzzyLoopNoBreak(denom, infoMap, k + 1, e, expMap)
         ELSE FuzzyLoopNoBreak(denom, infoMap, k + 1, exponent, expMap)

\* the loop of lines 396-414, from entry k on, with the current value of
\* `exponent`; yields the final `exponent` and the denomExponentMap
RECURSIVE FuzzyLoop(_, _, _, _, _)
FuzzyLoop(denom, infoMap, k, exponent, expMap) ==
    IF k > Len(infoMap)
    THEN [exponent |-> exponent, denomExponentMap |-> expMap]
    ELSE IF FuzzyMatch(denom, infoMap[k].symbol)
         THEN LET e == ResolvePrecision(infoMap[k].info)
              IN  IF e # Undefined /\ e > 0
                  THEN [exponent |-> e,
                        denomExponentMap |-> MapSet(expMap, denom, e)]
                  ELSE FuzzyLoop(denom, infoMap, k + 1, e, expMap)
         ELSE FuzzyLoop(denom, infoMap, k + 1, exponent, expMap)

\* ResolveBalanceExponent that runs the fuzzy loop before the exact lookup
ResolveBalanceExponentFuzzyFirst(denom, infoMap, expMap) ==
    LET fuzzy == FuzzyLoop(denom, infoMap, 1, Undefined, expMap)
    IN  IF fuzzy.exponent # Undefined THEN fuzzy
        ELSE [exponent |-> MapGet(expMap, denom),
              denomExponentMap |-> expMap]

\* formatBalance, lines 391-415: the exponent it resolves and the
\* denomExponentMap it leaves behind
ResolveBalanceExponent(denom, infoMap, expMap) ==
    LET exponent == MapGet(expMap, denom)
    IN  IF exponent = Undefined
        THEN FuzzyLoop(denom, infoMap, 1, exponent, expMap)
        ELSE [exponent |-> exponent, denomExponentMap |-> expMap]

\* formatSubaccountAsset, lines 442-454: the exponent it resolves
ResolveAssetExponent(symbol, infoMap, expMap) ==
    LET exponent == MapGet(expMap, symbol)
    IN  IF exponent = Undefined /\ HasInfo(infoMap, symbol)
        THEN ResolvePrecision(InfoGet(infoMap, symbol))
        ELSE exponent

\* String.prototype.startsWith for a one-character prefix
startsWith(str, c) == Len(str) >= 1 /\ str[1] = c

\* a decimal number digits / 10^scale with no trailing zero after the point
RECURSIVE Normalise(_)
Normalise(dec) ==
    IF dec.digits = 0 THEN [digits |-> 0, scale |-> 0]
    ELSE IF dec.scale > 0 /\ dec.digits % 10 = 0
         THEN Normalise([digits |-> dec.digits \div 10,
                         scale |-> dec.scale - 1])
         ELSE dec

\* exponent of the minimal-unit prefixes: micro and atto
MicroExponent == 6
AttoExponent == 18

HasUnitPrefix(denom) == startsWith(denom, "u") \/ startsWith(denom, "a")

\* getConvertedAmount of utils/cosmos: the amount shifted by the exponent,
\* or by the exponent of the denom's prefix when there is none, and the
\* denom without its prefix
getConvertedAmount(amount, denom, exponent) ==
    LET shift == IF exponent # Undefined THEN exponent
                 ELSE IF startsWith(denom, "u") THEN MicroExponent
                 ELSE IF startsWith(denom, "a") THEN AttoExponent
                 ELSE 0
    IN  [converted |-> Normalise([digits |-> amount, scale |-> shift]),
         base |-> IF HasUnitPrefix(denom) THEN Tail(denom) ELSE denom]

NoFormat ==
    [op |-> "none", key |-> <<>>, exponent |-> Undefined, amount |-> 0,
     converted |-> [digits |-> 0, scale |-> 0], base |-> <<>>]

InitFormatIdle ==
    /\ assetInfo = <<>>
    /\ assetInfoMap = <<>>
    /\ denomExponentMap = EmptyMap
    /\ lastFormat = NoFormat

InitFormat ==
    /\ assetInfo \in Responses
    /\ assetInfoMap = <<>>
    /\ denomExponentMap = EmptyMap
    /\ lastFormat = NoFormat

\* the load effect received the metadata (lines 315-339)
LoadMetadata ==
    /\ assetInfoMap' = assetInfo
    /\ denomExponentMap' = BuildExponentMap(assetInfo, 1, EmptyMap)
    /\ lastFormat' = NoFormat
    /\ UNCHANGED assetInfo
    /\ UNCHANGED notFormatVars

\* formatBalance that reports the raw denom as the base denom
formatBalanceRawDenom(balance) ==
    LET r == ResolveBalanceExponent(balance.denom, assetInfoMap,
                                    denomExponentMap)
        c == getConvertedAmount(balance.amount, balance.denom, r.exponent)
    IN  /\ denomExponentMap' = r.denomExponentMap
        /\ lastFormat' =
              [op |-> "balance", key |-> balance.denom,
               exponent |-> r.exponent, amount |-> balance.amount,
               converted |-> c.converted, base |-> balance.denom]
        /\ UNCHANGED <<assetInfo, assetInfoMap>>
        /\ UNCHANGED notFormatVars

\* a render formats a balance (lines 388-438); the Map held in
\* denomExponentMap is written in place
formatBalance(balance) ==
    LET r == ResolveBalanceExponent(balance.denom, assetInfoMap,
                                    denomExponentMap)
        c == getConvertedAmount(balance.amount, balance.denom, r.exponent)
    IN  /\ denomExponentMap' = r.denomExponentMap
        /\ lastFormat' =
              [op |-> "balance", key |-> balance.denom,
               exponent |-> r.exponent, amount |-> balance.amount,
               converted |-> c.converted, base |-> c.base]
        /\ UNCHANGED <<assetInfo, assetInfoMap>>
        /\ UNCHANGED notFormatVars

\* a render formats a subaccount position (lines 441-468)
formatSubaccountAsset(position) ==
    LET exponent == ResolveAssetExponent(position.symbol, assetInfoMap,
                                         denomExponentMap)
        c == getConvertedAmount(position.size, position.symbol, exponent)
    IN
    /\ lastFormat' =
          [op |-> "asset", key |-> position.symbol, exponent |-> exponent,
           amount |-> position.size, converted |-> c.converted,
           base |-> <<>>]
    /\ UNCHANGED <<assetInfo, assetInfoMap, denomExponentMap>>
    /\ UNCHANGED notFormatVars

NextFormat ==
    \/ LoadMetadata
    \/ \E balance \in Balances : formatBalance(balance)
    \/ \E position \in Positions : formatSubaccountAsset(position)

(***************************************************************************)
(* AccountDetail: pagination of the IBC tokens                             *)
(***************************************************************************)
\* number of IBC tokens among the balances
MaxTokens == 36

\* the options of the page-size select (lines 1021-1023)
PageSizes == {5, 10, 20}
\* useState(10), line 262
DefaultItemsPerPage == 10

NoRequest == -1000

\* the IBC tokens of a balance list that holds n of them: token k is the
\* k-th IBC balance
TokenList(n) == [k \in 1..n |-> k]

Max(a, b) == IF a >= b THEN a ELSE b
Min(a, b) == IF a <= b THEN a ELSE b

\* Math.ceil(length / perPage), line 481
totalPagesOf(tokens, perPage) == (Len(tokens) + perPage - 1) \div perPage
totalPages == totalPagesOf(ibcTokens, itemsPerPage)

\* lines 482-483
startIndexOf(page, perPage) == (page - 1) * perPage
endIndexOf(page, perPage) == startIndexOf(page, perPage) + perPage
startIndex == startIndexOf(currentPage, itemsPerPage)
endIndex == endIndexOf(currentPage, itemsPerPage)

\* Array.prototype.slice(start, end) for 0 <= start
slice(array, start, end) == SubSeq(array, start + 1, Min(end, Len(array)))

\* the window that stops one token short
PageWindowShort(tokens, page, perPage) ==
    slice(tokens, startIndexOf(page, perPage), endIndexOf(page, perPage) - 1)

\* paginatedIbcTokens of a render with the given page, line 484
PageWindow(tokens, page, perPage) ==
    slice(tokens, startIndexOf(page, perPage), endIndexOf(page, perPage))

paginatedIbcTokens == PageWindow(ibcTokens, currentPage, itemsPerPage)

\* lines 485-486
showingStart == IF Len(ibcTokens) > 0 THEN startIndex + 1 ELSE 0
showingEnd == Min(endIndex, Len(ibcTokens))

InitPage ==
    /\ ibcTokens = <<>>
    /\ itemsPerPage = DefaultItemsPerPage
    /\ currentPage = 1
    \* both effects run on mount
    /\ pendingEffects = {"itemsPerPage", "range"}
    /\ pageRequest = NoRequest

\* the buttons without the branch of lines 1184-1185 for the last pages
pageNumNoEndBranch(i) ==
    IF totalPages <= 5
    THEN i + 1
    ELSE IF currentPage <= 3
         THEN i + 1
         ELSE currentPage - 2 + i

\* the page number of the i-th page button, lines 1179-1188
pageNum(i) ==
    IF totalPages <= 5
    THEN i + 1
    ELSE IF currentPage <= 3
         THEN i + 1
         ELSE IF currentPage >= totalPages - 2
              THEN totalPages - 4 + i
              ELSE currentPage - 2 + i

\* the page buttons, lines 1176-1214: Array.from({ length: Math.min(5,
\* totalPages) }, (_, i) => ...)
pageButtons == [k \in 1..Min(5, totalPages) |-> pageNum(k - 1)]

\* the effects whose dependencies differ between two renders
\* (lines 491 and 498)
ChangedEffects(tokens, perPage, page) ==
    (IF perPage # itemsPerPage THEN {"itemsPerPage"} ELSE {})
        \cup (IF \/ Len(tokens) # Len(ibcTokens)
                 \/ totalPagesOf(tokens, perPage) # totalPages
                 \/ page # currentPage
              THEN {"range"} ELSE {})

\* handlePageChange that does not clamp at the last page
handlePageChangeNoUpperClamp(page) ==
    /\ pendingEffects = {}
    /\ currentPage' = Max(1, page)
    /\ pageRequest' = page
    /\ pendingEffects' = ChangedEffects(ibcTokens, itemsPerPage, currentPage')
    /\ UNCHANGED <<ibcTokens, itemsPerPage>>
    /\ UNCHANGED notPageVars

\* handlePageChange, lines 500-502, and the render that follows
handlePageChange(page) ==
    /\ pendingEffects = {}
    /\ currentPage' = Max(1, Min(page, totalPages))
    /\ pageRequest' = page
    /\ pendingEffects' = ChangedEffects(ibcTokens, itemsPerPage, currentPage')
    /\ UNCHANGED <<ibcTokens, itemsPerPage>>
    /\ UNCHANGED notPageVars

\* handleItemsPerPageChange, lines 504-506, and the render that follows
handleItemsPerPageChange(newItemsPerPage) ==
    /\ pendingEffects = {}
    /\ itemsPerPage' = newItemsPerPage
    /\ pageRequest' = NoRequest
    /\ pendingEffects' = ChangedEffects(ibcTokens, newItemsPerPage, currentPage)
    /\ UNCHANGED <<ibcTokens, currentPage>>
    /\ UNCHANGED notPageVars

\* setBalances of the load effect (line 280) with n IBC tokens among the
\* balances, and the render that follows
setBalances(n) ==
    /\ pendingEffects = {}
    /\ ibcTokens' = TokenList(n)
    /\ pageRequest' = NoRequest
    /\ pendingEffects' = ChangedEffects(TokenList(n), itemsPerPage, currentPage)
    /\ UNCHANGED <<itemsPerPage, currentPage>>
    /\ UNCHANGED notPageVars

\* the effects that never reset the page when the token set changes
RunEffectsNoRangeReset ==
    /\ pendingEffects # {}
    /\ currentPage' = IF "itemsPerPage" \in pendingEffects THEN 1
                      ELSE currentPage
    /\ pendingEffects' =
          ChangedEffects(ibcTokens, itemsPerPage, currentPage')
    /\ UNCHANGED <<ibcTokens, itemsPerPage, pageRequest>>
    /\ UNCHANGED notPageVars

\* the pending effects of a render run (lines 489-498), both against the
\* values of that render, and the render their setCurrentPage causes
RunEffects ==
    /\ pendingEffects # {}
    /\ currentPage' =
          IF \/ "itemsPerPage" \in pendingEffects
             \/ /\ "range" \in pendingEffects
                /\ currentPage > totalPages
                /\ totalPages > 0
          THEN 1
          ELSE currentPage
    /\ pendingEffects' =
          ChangedEffects(ibcTokens, itemsPerPage, currentPage')
    /\ UNCHANGED <<ibcTokens, itemsPerPage, pageRequest>>
    /\ UNCHANGED notPageVars

NextPage ==
    \* the page numbers the buttons and any other caller can pass
    \/ \E page \in -1..((MaxTokens \div 5) + 2) : handlePageChange(page)
    \/ \E newItemsPerPage \in PageSizes :
          handleItemsPerPageChange(newItemsPerPage)
    \/ \E n \in 0..MaxTokens : setBalances(n)
    \/ RunEffects

(***************************************************************************)
(* AccountDetail: decoding of the transactions                             *)
(***************************************************************************)
\* transactions in one answer of getTxsBySender
MaxTxs == 2
\* messages in the body of one transaction
MaxMsgs == 2

\* the answers of getTxsBySender: the k-th transaction has hash k, and a
\* shape: whether Tx.decode returns for its bytes or throws, and the
\* messages of the decoded body; the j-th message has type url j and
\* decodeMsg returns for it or throws
TxLists ==
    LET MessagesOf(n) ==
            {m \in [1..n -> [typeUrl : 1..n, decodes : BOOLEAN]] :
                \A j \in 1..n : m[j].typeUrl = j}
        TxShapes ==
            [decodes : {FALSE}, messages : {<<>>}]
                \cup [decodes : {TRUE},
                      messages : UNION {MessagesOf(n) : n \in 0..MaxMsgs}]
    IN  UNION {{[k \in 1..n |-> [hash |-> k, decodes |-> shape[k].decodes,
                                  messages |-> shape[k].messages]] :
                   shape \in [1..n -> TxShapes]} : n \in 0..MaxTxs}

\* the inner loop of lines 368-375 that gives up at the first failure
RECURSIVE DecodeMsgsStopAtFailure(_, _, _)
DecodeMsgsStopAtFailure(messages, k, msgs) ==
    IF k > Len(messages) THEN msgs
    ELSE IF messages[k].decodes
         THEN DecodeMsgsStopAtFailure(messages, k + 1,
                                      Append(msgs, messages[k].typeUrl))
         ELSE msgs

\* the inner loop of lines 368-375, from message k on
RECURSIVE DecodeMsgs(_, _, _)
DecodeMsgs(messages, k, msgs) ==
    IF k > Len(messages) THEN msgs
    ELSE IF messages[k].decodes
         THEN DecodeMsgs(messages, k + 1, Append(msgs, messages[k].typeUrl))
         ELSE DecodeMsgs(messages, k + 1, msgs)

\* the outer loop of lines 364-381 that gives the batch up at the first
\* transaction whose envelope does not decode
RECURSIVE DecodeTxsStopAtFailure(_, _, _)
DecodeTxsStopAtFailure(txs, k, decoded) ==
    IF k > Len(txs) THEN decoded
    ELSE IF txs[k].decodes
         THEN DecodeTxsStopAtFailure(txs, k + 1,
                  Append(decoded,
                         [tx |-> txs[k],
                          msgs |-> DecodeMsgs(txs[k].messages, 1, <<>>)]))
         ELSE decoded

\* the outer loop of lines 364-381, from transaction k on
RECURSIVE DecodeTxs(_, _, _)
DecodeTxs(txs, k, decoded) ==
    IF k > Len(txs) THEN decoded
    ELSE IF txs[k].decodes
         THEN DecodeTxs(txs, k + 1,
                  Append(decoded,
                         [tx |-> txs[k],
                          msgs |-> DecodeMsgs(txs[k].messages, 1, <<>>)]))
         ELSE DecodeTxs(txs, k + 1, decoded)

InitDecodeWith(data) ==
    /\ txData = data
    /\ transactions = <<>>
    /\ decodedTxs = <<>>
    /\ decodePending = TRUE

InitDecode == \E data \in TxLists : InitDecodeWith(data)

\* setTransactions of the load effect (lines 282-284) and the render that
\* follows: the array is a new one every time, so the decode effect is due
setTransactions(txs) ==
    /\ ~decodePending
    /\ transactions' = txs
    /\ decodePending' = TRUE
    /\ UNCHANGED <<txData, decodedTxs>>
    /\ UNCHANGED notDecodeVars

\* the decode effect, lines 360-386
RunDecodeEffect ==
    /\ decodePending
    /\ decodePending' = FALSE
    /\ decodedTxs' = IF Len(transactions) > 0
                     THEN DecodeTxs(transactions, 1, <<>>)
                     ELSE decodedTxs
    /\ UNCHANGED <<txData, transactions>>
    /\ UNCHANGED notDecodeVars

NextDecode ==
    \/ setTransactions(txData)
    \/ setTransactions(<<>>)
    \/ RunDecodeEffect

(***************************************************************************)
(* Indexer and metadata clients                                            *)
(***************************************************************************)
\* addresses of the accounts looked up, and the parent subaccount numbers
AccountAddresses == {1, 2}
SubaccountNumbers == {0, 1}

\* a fetch that rejects (network failure) is a response of status 0
NetworkFailure == 0
Statuses == {NetworkFailure, 200, 404, 500}

\* Response.ok
ok(response) == response.status \in 200..299

\* ---- JSON bodies ----
Child(subaccountNumber, kind, entries) ==
    [kind |-> "object", subaccountNumber |-> subaccountNumber,
     assetPositions |-> [kind |-> kind, entries |-> entries]]

\* the childSubaccounts arrays the indexer answers with: none, one child
\* with a position that has no symbol of its own, a child with two
\* positions before a child without assetPositions, and a null element
ChildLists ==
    {<<>>,
     <<Child(0, "object",
             <<[key |-> Str_USDC,
                position |-> [symbol |-> <<>>, size |-> 1500000]]>>)>>,
     <<Child(1, "object",
             <<[key |-> Str_USDC,
                position |-> [symbol |-> Str_USD, size |-> 25]],
               [key |-> Str_ETH,
                position |-> [symbol |-> Str_ETH, size |-> 1500000]]>>),
       Child(0, "undefined", <<>>)>>,
     <<Child(0, "object", <<>>),
       [kind |-> "null", subaccountNumber |-> 0,
        assetPositions |-> [kind |-> "undefined", entries |-> <<>>]]>>}

EmptyChildren == [kind |-> "array", items |-> <<>>]

\* the subaccount field of a parent answer: absent, or an object whose
\* childSubaccounts field is absent, not an array, or an array
NoSubaccount ==
    [kind |-> "undefined", address |-> 0, parentSubaccountNumber |-> 0,
     childSubaccounts |-> [kind |-> "undefined", items |-> <<>>]]

SubaccountFields(address, parentSubaccountNumber) ==
    {NoSubaccount}
        \cup [kind : {"object"}, address : {address},
              parentSubaccountNumber : {parentSubaccountNumber},
              childSubaccounts :
                  [kind : {"undefined", "notArray"}, items : {<<>>}]
                      \cup [kind : {"array"}, items : ChildLists]]

\* the responses of the parent endpoint; only a 2xx body is ever read, and
\* response.json() gives a rejection (the body is not JSON), null, or an
\* object
ParentResponses(address, parentSubaccountNumber) ==
    [status : Statuses \ {200},
     body : {[kind |-> "null", subaccount |-> NoSubaccount]}]
        \cup [status : {200},
              body : [kind : {"badJson", "null"}, subaccount : {NoSubaccount}]
                         \cup [kind : {"object"},
                               subaccount :
                                   SubaccountFields(address,
                                                    parentSubaccountNumber)]]

\* the promise an async method returns, once settled
Resolved(value) == [settled |-> "resolved", value |-> value]
Rejected == [settled |-> "rejected", value |-> <<>>]

\* the record of lines 63-69 and 81-87
EmptyParent(address, parentSubaccountNumber) ==
    [kind |-> "object",
     subaccount |->
        [kind |-> "object", address |-> address,
         parentSubaccountNumber |-> parentSubaccountNumber,
         childSubaccounts |-> EmptyChildren]]

\* getParentSubaccount whose empty record names parent subaccount 0
getParentSubaccountDefaultNumber(address, parentSubaccountNumber, response) ==
    IF response.status = NetworkFailure \/ ~ok(response)
    THEN Resolved(EmptyParent(address, 0))
    ELSE IF response.body.kind = "badJson"
         THEN Resolved(EmptyParent(address, 0))
         ELSE Resolved(response.body)

\* IndexerClient.getParentSubaccount, lines 49-90
getParentSubaccount(address, parentSubaccountNumber, response) ==
    IF response.status = NetworkFailure
    THEN Resolved(EmptyParent(address, parentSubaccountNumber))
    ELSE IF ~ok(response)
         THEN Resolved(EmptyParent(address, parentSubaccountNumber))
         ELSE IF response.body.kind = "badJson"
              THEN Resolved(EmptyParent(address, parentSubaccountNumber))
              ELSE Resolved(response.body)

\* IndexerClient.getSubaccounts, lines 95-105: reading a field of null or
\* of undefined throws, and the throw is caught
getSubaccounts(address, response) ==
    LET parent == getParentSubaccount(address, 0, response).value
    IN  IF parent.kind = "null" \/ parent.subaccount.kind = "undefined"
        THEN Resolved([subaccounts |-> EmptyChildren])
        ELSE IF parent.subaccount.childSubaccounts.kind = "undefined"
             THEN Resolved([subaccounts |-> EmptyChildren])
             ELSE Resolved([subaccounts |->
                               parent.subaccount.childSubaccounts])

\* the responses of the asset-positions endpoint
PositionsResponses ==
    [status : Statuses \ {200}, body : {[kind |-> "null", positions |-> <<>>]}]
        \cup [status : {200},
              body : [kind : {"badJson", "null"}, positions : {<<>>}]
                         \cup [kind : {"object"},
                               positions :
                                   {<<>>,
                                    <<[symbol |-> Str_USDC,
                                       size |-> 1500000]>>}]]

EmptyPositions == [kind |-> "object", positions |-> <<>>]

\* IndexerClient.getSubaccountAssetPositions, lines 110-135: the promise of
\* response.json() is returned, not awaited, so its rejection is the
\* method's
getSubaccountAssetPositions(address, subaccountNumber, response) ==
    IF response.status = NetworkFailure
    THEN Resolved(EmptyPositions)
    ELSE IF ~ok(response)
         THEN Resolved(EmptyPositions)
         ELSE IF response.body.kind = "badJson"
              THEN Rejected
              ELSE Resolved(response.body)

\* the callback that names every position by its key
ConvertChildKeyOnly(childSubaccount) ==
    LET entries == childSubaccount.assetPositions.entries
    IN  [subaccountNumber |-> childSubaccount.subaccountNumber,
         positions |->
            IF childSubaccount.assetPositions.kind = "object"
            THEN [k \in 1..Len(entries) |->
                    [symbol |-> entries[k].key,
                     size |-> entries[k].position.size,
                     subaccountNumber |-> childSubaccount.subaccountNumber]]
            ELSE <<>>]

\* the callback of lines 155-174 on one child subaccount
ConvertChild(childSubaccount) ==
    LET entries == childSubaccount.assetPositions.entries
    IN  [subaccountNumber |-> childSubaccount.subaccountNumber,
         positions |->
            IF childSubaccount.assetPositions.kind = "object"
            THEN [k \in 1..Len(entries) |->
                    [symbol |-> IF entries[k].position.symbol # <<>>
                                THEN entries[k].position.symbol
                                ELSE entries[k].key,
                     size |-> entries[k].position.size,
                     subaccountNumber |-> childSubaccount.subaccountNumber]]
            ELSE <<>>]

\* IndexerClient.getAllSubaccountAssets, lines 140-183: a childSubaccounts
\* that is not an array has no map, and a null child has no assetPositions;
\* both throw into the catch
getAllSubaccountAssets(address, parentSubaccountNumber, response) ==
    LET parent ==
            getParentSubaccount(address, parentSubaccountNumber,
                                response).value
        children == parent.subaccount.childSubaccounts
    IN  IF parent.kind = "null" \/ parent.subaccount.kind = "undefined"
        THEN Resolved(<<>>)
        ELSE IF children.kind # "array" \/ Len(children.items) = 0
             THEN Resolved(<<>>)
             ELSE IF \E k \in 1..Len(children.items) :
                        children.items[k].kind = "null"
                  THEN Resolved(<<>>)
                  ELSE Resolved([k \in 1..Len(children.items) |->
                                    ConvertChild(children.items[k])])

\* the responses of the metadata endpoints /info and /prices: the entries
\* of the answered object, in key order
MetadataResponses ==
    [status : Statuses \ {200}, body : {[kind |-> "null", entries |-> <<>>]}]
        \cup [status : {200},
              body : [kind : {"badJson", "null"}, entries : {<<>>}]
                         \cup [kind : {"object"},
                               entries :
                                   {<<>>,
                                    <<[symbol |-> Str_USDC,
                                       info |->
                                           [atomicResolution |-> Undefined,
                                            denomExponent |-> Undefined,
                                            decimals |-> 3]]>>}]]

\* the mapping {}
EmptyMapping == [kind |-> "object", entries |-> <<>>]

\* a metadata method that lets a failure of fetch through
MetadataCallNoCatch(response) ==
    IF response.status = NetworkFailure \/ ~ok(response)
    THEN Rejected
    ELSE IF response.body.kind = "badJson"
         THEN Rejected
         ELSE Resolved(response.body)

\* the body shared by getAssetInfo (lines 37-56) and getAssetPrices (lines
\* 61-80): the promise of response.json() is returned, not awaited
MetadataCall(response) ==
    IF response.status = NetworkFailure
    THEN Resolved(EmptyMapping)
    ELSE IF ~ok(response)
         THEN Resolved(EmptyMapping)
         ELSE IF response.body.kind = "badJson"
              THEN Rejected
              ELSE Resolved(response.body)

\* MetadataServiceClient.getAssetInfo, lines 37-56
getAssetInfo(response) == MetadataCall(response)

\* MetadataServiceClient.getAssetPrices, lines 61-80
getAssetPrices(response) == MetadataCall(response)

\* no method has been called yet
InitClient == lastCall = [method |-> "none"]

\* a caller awaits indexerClient.getParentSubaccount
CallGetParentSubaccount(address, parentSubaccountNumber, response) ==
    /\ lastCall' =
          [method |-> "getParentSubaccount", address |-> address,
           number |-> parentSubaccountNumber, response |-> response,
           result |-> getParentSubaccount(address, parentSubaccountNumber,
                                          response)]
    /\ UNCHANGED notClientVars

\* a caller awaits indexerClient.getSubaccounts
CallGetSubaccounts(address, response) ==
    /\ lastCall' =
          [method |-> "getSubaccounts", address |-> address, number |-> 0,
           response |-> response,
           result |-> getSubaccounts(address, response)]
    /\ UNCHANGED notClientVars

\* a caller awaits indexerClient.getSubaccountAssetPositions
CallGetSubaccountAssetPositions(address, subaccountNumber, response) ==
    /\ lastCall' =
          [method |-> "getSubaccountAssetPositions", address |-> address,
           number |-> subaccountNumber, response |-> response,
           result |-> getSubaccountAssetPositions(address, subaccountNumber,
                                                  response)]
    /\ UNCHANGED notClientVars

\* a caller awaits indexerClient.getAllSubaccountAssets
CallGetAllSubaccountAssets(address, parentSubaccountNumber, response) ==
    /\ lastCall' =
          [method |-> "getAllSubaccountAssets", address |-> address,
           number |-> parentSubaccountNumber, response |-> response,
           result |-> getAllSubaccountAssets(address, parentSubaccountNumber,
                                             response)]
    /\ UNCHANGED notClientVars

\* a caller awaits metadataClient.getAssetInfo
CallGetAssetInfo(response) ==
    /\ lastCall' =
          [method |-> "getAssetInfo", address |-> 0, number |-> 0,
           response |-> response, result |-> getAssetInfo(response)]
    /\ UNCHANGED notClientVars

\* a caller awaits metadataClient.getAssetPrices
CallGetAssetPrices(response) ==
    /\ lastCall' =
          [method |-> "getAssetPrices", address |-> 0, number |-> 0,
           response |-> response, result |-> getAssetPrices(response)]
    /\ UNCHANGED notClientVars

NextClient ==
    \/ \E address \in AccountAddresses, n \in SubaccountNumbers :
          \E response \in ParentResponses(address, n) :
              \/ CallGetParentSubaccount(address, n, response)
              \/ CallGetAllSubaccountAssets(address, n, response)
    \/ \E address \in AccountAddresses :
          \E response \in ParentResponses(address, 0) :
              CallGetSubaccounts(address, response)
    \/ \E address \in AccountAddresses, n \in SubaccountNumbers :
          \E response \in PositionsResponses :
              CallGetSubaccountAssetPositions(address, n, response)
    \/ \E response \in MetadataResponses : CallGetAssetInfo(response)
    \/ \E response \in MetadataResponses : CallGetAssetPrices(response)

(***************************************************************************)
(* AccountDetail: load effect                                              *)
(***************************************************************************)
\* runs of the load effect in one behaviour
MaxLoads == 2
Loads == 1..MaxLoads

\* the route has no address
NoAddress == 0

\* how the four chain queries settle: TRUE when the query resolves, FALSE
\* when it rejects and its .catch supplies the fallback (lines 270-276);
\* all resolve, one of them rejects, or all reject
ChainOutcomes ==
    {o \in [account : BOOLEAN, balances : BOOLEAN, staked : BOOLEAN,
            txs : BOOLEAN] :
        Cardinality({q \in {"account", "balances", "staked", "txs"} :
                        ~o[q]}) \in {0, 1, 4}}

NoSettle == [load |-> 0, step |-> "none", status |-> NetworkFailure]

\* a state of the Connect component after its first invocation succeeded
InitConnected ==
    /\ defaultRpc = DEFAULT_RPC_ADDRESS
    /\ state = "success"
    /\ error = FALSE
    /\ connectState = TRUE
    /\ tmClient = 1
    /\ rpcAddress = DEFAULT_RPC_ADDRESS
    /\ subsNewBlock = 1
    /\ subsTxEvent = 1
    /\ newBlock = Null
    /\ txEvent = Null
    /\ blockLog = <<>>
    /\ txLog = <<>>
    /\ params = ClearedParams
    /\ pc = [i \in Invocations |-> IF i = 1 THEN "done" ELSE "idle"]
    /\ closure = [i \in Invocations |->
                    IF i = 1
                    THEN [subsNewBlock |-> Null, subsTxEvent |-> Null,
                          tmClient |-> Null,
                          rpcAddress |-> DEFAULT_RPC_ADDRESS]
                    ELSE NoClosure]
    /\ result = [i \in Invocations |-> IF i = 1 THEN "success" ELSE "none"]
    /\ effectRuns = 1
    /\ connected = {1}
    /\ createdNewBlock = {1}
    /\ createdTx = {1}
    /\ activeNewBlock = {1}
    /\ activeTx = {1}
    /\ validateCalls = {1}
    /\ deliveredBlocks = <<>>
    /\ deliveredTxs = <<>>
    /\ nEvents = 0

InitLoad ==
    /\ routeAddress = NoAddress
    /\ account = Null
    /\ balances = <<>>
    /\ stakedBalance = Null
    /\ loading = TRUE
    /\ subaccountAssets = <<>>
    /\ toasts = 0
    /\ pcLoad = [l \in Loads |-> "idle"]
    /\ loadAddress = [l \in Loads |-> NoAddress]
    /\ lastSettle = NoSettle

\* the run of the effect that starts next
NextLoadRun ==
    CHOOSE l \in Loads :
        pcLoad[l] = "idle" /\ \A k \in Loads : k < l => pcLoad[k] # "idle"

\* the route changes to another address and the effect of lines 266-358
\* runs: with a client and an address it sets loading and starts the four
\* chain queries
StartLoad(a) ==
    /\ a # routeAddress
    /\ tmClient # Null /\ a # NoAddress
    /\ \E l \in Loads : pcLoad[l] = "idle"
    /\ routeAddress' = a
    /\ loading' = TRUE
    /\ pcLoad' = [pcLoad EXCEPT ![NextLoadRun] = "chain"]
    /\ loadAddress' = [loadAddress EXCEPT ![NextLoadRun] = a]
    /\ lastSettle' = NoSettle
    /\ UNCHANGED <<account, balances, stakedBalance, subaccountAssets, toasts>>
    /\ UNCHANGED <<transactions, decodePending, assetInfoMap, denomExponentMap>>
    /\ UNCHANGED notLoadVars

\* the inner catch of lines 342-348 and the setLoading(false) of line 350
\* that follows it
CatchAndFinish(l) ==
    /\ loading' = FALSE
    /\ pcLoad' = [pcLoad EXCEPT ![l] = "done"]

\* a .then callback that calls the indexer before it sets anything
ChainSettledIndexerFirst(l, outcome) ==
    /\ pcLoad[l] = "chain"
    /\ pcLoad' = [pcLoad EXCEPT ![l] = "subaccounts"]
    /\ lastSettle' = NoSettle
    /\ UNCHANGED <<routeAddress, account, balances, stakedBalance, loading,
                   subaccountAssets, toasts, loadAddress>>
    /\ UNCHANGED <<transactions, decodePending, assetInfoMap,
                   denomExponentMap>>
    /\ UNCHANGED notLoadVars

\* the four chain queries of a run have settled and the .then callback of
\* lines 278-290 runs up to its first await: it sets the primary state and
\* calls indexerClient.getSubaccounts; the new transactions array makes the
\* decode effect due
ChainSettled(l, outcome) ==
    LET a == loadAddress[l]
    IN  /\ pcLoad[l] = "chain"
        \* what the chain holds for an address: the account and the staked
        \* balance are held as the address itself
        /\ account' = IF outcome.account THEN a ELSE Null
        /\ balances' =
              IF outcome.balances
              THEN <<[denom |-> Str_adydx, amount |-> 1500000, owner |-> a]>>
              ELSE <<>>
        /\ stakedBalance' = IF outcome.staked THEN a ELSE Null
        /\ transactions' =
              IF outcome.txs
              THEN <<[hash |-> a, decodes |-> TRUE, messages |-> <<>>]>>
              ELSE <<>>
        /\ decodePending' = TRUE
        /\ pcLoad' = [pcLoad EXCEPT ![l] = "subaccounts"]
        /\ lastSettle' = NoSettle
        /\ UNCHANGED <<routeAddress, loading, subaccountAssets, toasts,
                       loadAddress>>
        /\ UNCHANGED <<assetInfoMap, denomExponentMap>>
        /\ UNCHANGED notLoadVars

\* getSubaccounts has settled (lines 291-293): its value is not used, and
\* the run calls getAllSubaccountAssets
SubaccountsSettled(l, response) ==
    LET r == getSubaccounts(loadAddress[l], response)
    IN  /\ pcLoad[l] = "subaccounts"
        /\ IF r.settled = "rejected"
           THEN CatchAndFinish(l)
           ELSE /\ pcLoad' = [pcLoad EXCEPT ![l] = "assets"]
                /\ UNCHANGED loading
        /\ lastSettle' = NoSettle
        /\ UNCHANGED <<routeAddress, account, balances, stakedBalance,
                       subaccountAssets, toasts, loadAddress>>
        /\ UNCHANGED <<transactions, decodePending, assetInfoMap,
                       denomExponentMap>>
        /\ UNCHANGED notLoadVars

\* getAllSubaccountAssets has settled (lines 295-318): the run sets the
\* subaccount assets and, when they name a symbol, calls getAssetInfo
AssetsSettled(l, response) ==
    LET r == getAllSubaccountAssets(loadAddress[l], 0, response)
        \* assetSymbols of lines 300-307 is not empty
        HasSymbols(assets) ==
            \E k \in 1..Len(assets) :
                \E j \in 1..Len(assets[k].positions) :
                    assets[k].positions[j].symbol # <<>>
    IN  /\ pcLoad[l] = "assets"
        /\ IF r.settled = "rejected"
           THEN /\ CatchAndFinish(l)
                /\ UNCHANGED subaccountAssets
           ELSE /\ subaccountAssets' = r.value
                /\ IF HasSymbols(r.value)
                   THEN /\ pcLoad' = [pcLoad EXCEPT ![l] = "metadata"]
                        /\ UNCHANGED loading
                   ELSE /\ pcLoad' = [pcLoad EXCEPT ![l] = "done"]
                        /\ loading' = FALSE
        /\ lastSettle' =
              [load |-> l, step |-> "assets", status |-> response.status]
        /\ UNCHANGED <<routeAddress, account, balances, stakedBalance,
                       toasts, loadAddress>>
        /\ UNCHANGED <<transactions, decodePending, assetInfoMap,
                       denomExponentMap>>
        /\ UNCHANGED notLoadVars

\* getAssetInfo has settled (lines 315-350): a rejection, and the throw of
\* Object.entries(null), go to the inner catch; otherwise the run sets the
\* two maps; either way it sets loading to false
MetadataSettled(l, response) ==
    LET r == getAssetInfo(response)
    IN  /\ pcLoad[l] = "metadata"
        /\ IF r.settled = "rejected" \/ r.value.kind = "null"
           THEN UNCHANGED <<assetInfoMap, denomExponentMap>>
           ELSE /\ assetInfoMap' = r.value.entries
                /\ denomExponentMap' =
                      BuildExponentMap(r.value.entries, 1, EmptyMap)
        /\ loading' = FALSE
        /\ pcLoad' = [pcLoad EXCEPT ![l] = "done"]
        /\ lastSettle' = NoSettle
        /\ UNCHANGED <<routeAddress, account, balances, stakedBalance,
                       subaccountAssets, toasts, loadAddress>>
        /\ UNCHANGED <<transactions, decodePending>>
        /\ UNCHANGED notLoadVars

\* the steps of one run of the load effect
LoadStep(l) ==
    \/ \E outcome \in ChainOutcomes : ChainSettled(l, outcome)
    \/ \E response \in ParentResponses(loadAddress[l], 0) :
          SubaccountsSettled(l, response)
    \/ \E response \in ParentResponses(loadAddress[l], 0) :
          AssetsSettled(l, response)
    \/ \E response \in MetadataResponses : MetadataSettled(l, response)

NextLoad ==
    \/ \E a \in AccountAddresses : StartLoad(a)
    \/ \E l \in Loads : LoadStep(l)

(***************************************************************************)
(* AccountDetail: the rows of the native token table (lines 756-777)       *)
(***************************************************************************)
\* A raw amount is the integer its decimal string denotes, held in two
\* digits of radix 2^27: hi * Radix + lo
Radix == 2 ^ 27

\* the exact sum of two integers
Add(x, y) ==
    [hi |-> x.hi + y.hi + ((x.lo + y.lo) \div Radix),
     lo |-> (x.lo + y.lo) % Radix]

\* the Number nearest to an integer below 2^55: a Number holds 53
\* significant bits, so integers from 2^53 = 2^26 * Radix on are rounded to
\* a multiple of 2, and from 2^54 on to a multiple of 4, ties going to the
\* even significand
RoundToDouble(x) ==
    LET ulp == IF x.hi < 2 ^ 26 THEN 1 ELSE IF x.hi < 2 ^ 27 THEN 2 ELSE 4
        rem == x.lo % ulp
        down == [hi |-> x.hi, lo |-> x.lo - rem]
        up == Add(down, [hi |-> 0, lo |-> ulp])
    IN  IF 2 * rem < ulp
        THEN down
        ELSE IF 2 * rem > ulp
             THEN up
             ELSE IF (x.lo \div ulp) % 2 = 1 THEN up ELSE down

\* parseFloat of the decimal string of an integer, lines 770-771
parseFloat(amount) == RoundToDouble(amount)

\* the raw amounts the chain answers with: small ones, and those around
\* 2^53 (1 DYDX is 10^18 adydx, above 2^53)
RawAmounts ==
    [hi : {0}, lo : {0, 1, 25, 1500000}]
        \cup [hi : {2 ^ 26 - 1}, lo : {Radix - 1}]
        \cup [hi : {2 ^ 26}, lo : {0, 1, 2, 3}]

\* totalAmount of lines 768-773: the sum of two Numbers is the Number
\* nearest to their exact sum, and toString writes an integer Number
\* below 2^54 with all its digits
totalAmount(balance, stakedForThisToken) ==
    IF stakedForThisToken.kind # "null"
    THEN RoundToDouble(Add(parseFloat(balance.amount),
                           parseFloat(stakedForThisToken.amount)))
    ELSE balance.amount

InitRow == lastTotal = [op |-> "none"]

\* a coin that is null
NullCoin == [kind |-> "null", amount |-> [hi |-> 0, lo |-> 0], denom |-> <<>>]

\* the callback of nativeTokens.map (lines 758-777) on one balance, with
\* the native staked token of line 477
NativeRow(balance, nativeStakedToken) ==
    LET stakedForThisToken ==
            IF nativeStakedToken.kind # "null"
               /\ nativeStakedToken.denom = balance.denom
            THEN nativeStakedToken
            ELSE NullCoin
    IN  /\ lastTotal' =
              [op |-> "row", balance |-> balance,
               nativeStakedToken |-> nativeStakedToken,
               totalAmount |-> totalAmount(balance, stakedForThisToken)]
        /\ UNCHANGED <<connectVars, formatVars, pageVars, decodeVars,
                       clientVars, loadVars>>

NextRow ==
    \E balance \in [kind : {"object"}, amount : RawAmounts,
                    denom : {Str_adydx}] :
        \/ NativeRow(balance, NullCoin)
        \/ \E staked \in [kind : {"object"}, amount : RawAmounts,
                           denom : {Str_adydx, Str_uusdc}] :
              NativeRow(balance, staked)

(***************************************************************************)
(* Specifications                                                          *)
(***************************************************************************)
Init ==
    /\ InitConnect
    /\ InitFormatIdle
    /\ InitPage
    /\ InitDecodeWith(<<>>)
    /\ InitClient
    /\ InitLoad
    /\ InitRow

Next == NextConnect

Spec == Init /\ [][Next]_vars

InitF ==
    /\ InitConnectWith(DEFAULT_RPC_ADDRESS)
    /\ InitFormat
    /\ InitPage
    /\ InitDecodeWith(<<>>)
    /\ InitClient
    /\ InitLoad
    /\ InitRow

SpecFormat == InitF /\ [][NextFormat]_vars

InitP ==
    /\ InitConnectWith(DEFAULT_RPC_ADDRESS)
    /\ InitFormatIdle
    /\ InitPage
    /\ InitDecodeWith(<<>>)
    /\ InitClient
    /\ InitLoad
    /\ InitRow

SpecPage == InitP /\ [][NextPage]_vars

InitD ==
    /\ InitConnectWith(DEFAULT_RPC_ADDRESS)
    /\ InitFormatIdle
    /\ InitPage
    /\ InitDecode
    /\ InitClient
    /\ InitLoad
    /\ InitRow

SpecDecode == InitD /\ [][NextDecode]_vars

SpecClient == InitP /\ [][NextClient]_vars

SpecRow == InitP /\ [][NextRow]_vars

InitL ==
    /\ InitConnected
    /\ InitFormatIdle
    /\ InitPage
    /\ InitDecodeWith(<<>>)
    /\ InitClient
    /\ InitLoad
    /\ InitRow

SpecLoad == InitL /\ [][NextLoad]_vars

\* an awaited call that can settle does settle
SpecLoadFair == SpecLoad /\ WF_vars(\E l \in Loads : LoadStep(l))

(***************************************************************************)
(* Claims about Connect                                                    *)
(***************************************************************************)
Last(s) == s[Len(s)]

IsPrefix(s, t) ==
    /\ Len(s) <= Len(t)
    /\ \A k \in 1..Len(s) : s[k] = t[k]

InFlight == {i \in Invocations : pc[i] \in {"validating", "connecting"}}

Failures ==
    {"empty", "invalid", "validateThrew", "noClient", "connectThrew",
     "subscribeNewBlockThrew", "subscribeTxThrew"}

ValidationFailures == {"empty", "invalid", "validateThrew"}

\* invocation i ends in this step
Ends(i) == result[i] = "none" /\ result'[i] # "none"

\* C1: for each stream type at most one subscription handle created by
\* connectClient is created and not yet unsubscribed.
C1_AtMostOneActivePerStream ==
    /\ Cardinality(activeNewBlock) <= 1
    /\ Cardinality(activeTx) <= 1

\* C2: when an invocation ends in 'success' the store holds the new-block
\* handle and the transaction handle this invocation created, and every
\* handle created by another invocation has been unsubscribed.
C2_SuccessLeavesOnlyOwnHandles ==
    [][\A i \in Invocations :
          (Ends(i) /\ result'[i] = "success") =>
              /\ subsNewBlock' = i
              /\ subsTxEvent' = i
              /\ activeNewBlock' = {i}
              /\ activeTx' = {i}]_vars

\* the store is in the disconnected state
Disconnected ==
    /\ connectState = FALSE
    /\ tmClient \notin connected
    /\ subsNewBlock = Null
    /\ subsTxEvent = Null

\* C3: an invocation that ends with the error flag set leaves the store
\* disconnected, and once no invocation is running connectState is true
\* only with a connected client and both handle slots filled.
C3_FailsClosed ==
    /\ [][\A i \in Invocations :
             (Ends(i) /\ result'[i] \in Failures) => Disconnected']_vars
    /\ [](InFlight = {} /\ connectState = TRUE =>
             /\ tmClient \in connected
             /\ subsNewBlock # Null
             /\ subsTxEvent # Null)

\* invocation i calls connectWebsocketClient in this step
CallsConnect(i) == pc[i] = "validating" /\ pc'[i] = "connecting"

\* C4: connectWebsocketClient is called only once every stored handle has
\* been unsubscribed and the stored client disconnected, and two clients
\* created by connectClient are never connected together.
C4_TearDownBeforeReplace ==
    /\ [][\A i \in Invocations :
             CallsConnect(i) =>
                 /\ subsNewBlock' \notin activeNewBlock'
                 /\ subsTxEvent' \notin activeTx'
                 /\ tmClient' \notin connected']_vars
    /\ [](Cardinality(connected) <= 1)

\* C5: a call with an empty address, or one whose validation resolves to
\* false or throws, leaves the store unchanged and calls neither
\* unsubscribe() nor disconnect(); with an empty address
\* validateConnection is not called.
C5_ValidationPrecedesCommitment ==
    /\ [][\A i \in Invocations :
             \/ (pc[i] = "idle" /\ pc'[i] # "idle")
             \/ (Ends(i) /\ result'[i] \in ValidationFailures)
             => UNCHANGED <<storeVars, libVars>>]_vars
    /\ [](\A i \in Invocations :
             (pc[i] # "idle" /\ closure[i].rpcAddress = EmptyAddress) =>
                 /\ i \notin validateCalls
                 /\ result[i] = "empty")

C5_Witness ==
    /\ tmClient # Null
    /\ params = LoadedParams
    /\ newBlock # Null
    /\ \E i \in Invocations :
          /\ result[i] \in {"invalid", "validateThrew"}
          /\ closure[i].tmClient # Null

\* C6: when connectClient stores a new tmClient all seven parameter slots
\* are null.
C6_ParamsClearedOnNewConnection ==
    [][\A i \in Invocations :
          (tmClient' = i /\ tmClient # i) =>
              \A p \in ParamNames : params'[p] = Null]_vars

\* C7: a delivered event is written to the latest slot of its stream and
\* appended to the log of its stream and leaves the other stream's slot and
\* log alone; each log holds the events of its stream in delivery order and
\* only ever grows at its end.
C7_FanOut ==
    /\ [](blockLog = deliveredBlocks /\ txLog = deliveredTxs)
    /\ [][/\ deliveredBlocks' # deliveredBlocks =>
               /\ newBlock' = Last(deliveredBlocks')
               /\ blockLog' = Append(blockLog, Last(deliveredBlocks'))
               /\ UNCHANGED <<txEvent, txLog>>
          /\ deliveredTxs' # deliveredTxs =>
               /\ txEvent' = Last(deliveredTxs')
               /\ txLog' = Append(txLog, Last(deliveredTxs'))
               /\ UNCHANGED <<newBlock, blockLog>>
          /\ IsPrefix(blockLog, blockLog')
          /\ IsPrefix(txLog, txLog')]_vars

C7_Witness ==
    /\ Len(blockLog) >= 1
    /\ Len(txLog) >= 1
    /\ Len(blockLog) + Len(txLog) = MaxEvents
    /\ \E k \in 1..Len(blockLog) : blockLog[k] > txLog[1]
    /\ result[MaxInvocations] = "success"

(***************************************************************************)
(* Claims about the precision resolver                                     *)
(***************************************************************************)
\* C8: for a position whose symbol has a metadata record, the exponent
\* formatSubaccountAsset resolves is the record's atomicResolution when that
\* is defined, else its denomExponent when that is defined, else its
\* decimals, whatever balances formatBalance formatted before.
C8_AtomicResolutionFirst ==
    (lastFormat.op = "asset" /\ HasInfo(assetInfoMap, lastFormat.key)) =>
        LET info == InfoGet(assetInfoMap, lastFormat.key)
        IN  /\ info.atomicResolution # Undefined =>
                   lastFormat.exponent = info.atomicResolution
            /\ (info.atomicResolution = Undefined
                   /\ info.denomExponent # Undefined) =>
                   lastFormat.exponent = info.denomExponent
            /\ (info.atomicResolution = Undefined
                   /\ info.denomExponent = Undefined) =>
                   lastFormat.exponent = info.decimals

\* entries of assetInfoMap whose symbol fuzzy-matches the denom
Matches(denom) ==
    {k \in 1..Len(assetInfoMap) : FuzzyMatch(denom, assetInfoMap[k].symbol)}

\* those among them whose resolved precision is defined and positive
UsableMatches(denom) ==
    {k \in Matches(denom) :
        LET e == ResolvePrecision(assetInfoMap[k].info)
        IN  e # Undefined /\ e > 0}

First(S) == CHOOSE k \in S : \A j \in S : k <= j

\* C9: when denomExponentMap has an entry under the balance's raw denom,
\* formatBalance resolves that entry's value and does no fuzzy matching
\* (denomExponentMap is not written).
C9_ExactMatchFirst ==
    [][(lastFormat'.op = "balance"
           /\ lastFormat'.key \in DOMAIN denomExponentMap) =>
          /\ lastFormat'.exponent = denomExponentMap[lastFormat'.key]
          /\ UNCHANGED denomExponentMap]_vars

C9_Witness ==
    /\ lastFormat.op = "balance"
    /\ lastFormat.key \in DOMAIN BuildExponentMap(assetInfo, 1, EmptyMap)
    /\ \E k \in UsableMatches(lastFormat.key) :
          /\ assetInfoMap[k].symbol # lastFormat.key
          /\ ResolvePrecision(assetInfoMap[k].info) # lastFormat.exponent
          /\ \A j \in 1..Len(assetInfoMap) :
                assetInfoMap[j].symbol = lastFormat.key => k < j

\* C10 as stated: without an exact match the exponent formatBalance
\* resolves is the one of the first symbol, in insertion order of
\* assetInfoMap, that fuzzy-matches the denom.
C10_FirstMatchWins ==
    [][(lastFormat'.op = "balance"
           /\ lastFormat'.key \notin DOMAIN denomExponentMap
           /\ Matches(lastFormat'.key) # {}) =>
          lastFormat'.exponent =
              ResolvePrecision(
                  assetInfoMap[First(Matches(lastFormat'.key))].info)]_vars

\* C10 amended: without an exact match, when some fuzzy-matching symbol has
\* a resolved precision that is defined and positive, the exponent
\* formatBalance resolves is the one of the first such symbol in insertion
\* order; later symbols do not determine it.
C10_FirstUsableMatchWins ==
    [][(lastFormat'.op = "balance"
           /\ lastFormat'.key \notin DOMAIN denomExponentMap
           /\ UsableMatches(lastFormat'.key) # {}) =>
          lastFormat'.exponent =
              ResolvePrecision(
                  assetInfoMap[First(UsableMatches(lastFormat'.key))].info)]_vars

C10_Witness ==
    /\ lastFormat.op = "balance"
    /\ lastFormat.key \notin DOMAIN BuildExponentMap(assetInfo, 1, EmptyMap)
    /\ Cardinality(UsableMatches(lastFormat.key)) >= 2
    /\ \E k \in UsableMatches(lastFormat.key) :
          /\ k # First(UsableMatches(lastFormat.key))
          /\ ResolvePrecision(assetInfoMap[k].info) # lastFormat.exponent
    /\ lastFormat.exponent =
          ResolvePrecision(
              assetInfoMap[First(UsableMatches(lastFormat.key))].info)

(***************************************************************************)
(* Claims about the converted amount                                       *)
(***************************************************************************)
\* 10^n for the small n the claims compare with
RECURSIVE PowerOfTen(_)
PowerOfTen(n) == IF n = 0 THEN 1 ELSE 10 * PowerOfTen(n - 1)

\* C11: with no metadata, formatBalance of 1500000 uusdc yields the converted
\* amount 1.5 and the base denom "usdc"; and whenever no exponent is resolved
\* for a denom that starts with "u", the converted amount is the raw amount
\* divided by 10^6 and the base denom is the denom without its first
\* character.
C11_PrefixHeuristic ==
    (lastFormat.op = "balance" /\ lastFormat.exponent = Undefined
        /\ startsWith(lastFormat.key, "u")) =>
        /\ lastFormat.base = Tail(lastFormat.key)
        /\ lastFormat.converted.scale \in 0..MicroExponent
        /\ lastFormat.converted.digits
              * PowerOfTen(MicroExponent - lastFormat.converted.scale)
             = lastFormat.amount
        /\ (lastFormat.amount = 1500000 /\ lastFormat.key = Str_uusdc) =>
              /\ lastFormat.converted = [digits |-> 15, scale |-> 1]
              /\ lastFormat.base = <<"u", "s", "d", "c">>

\* formatBalance ran on 1500000 uusdc with both maps empty
C11_Witness ==
    /\ assetInfoMap = <<>>
    /\ denomExponentMap = EmptyMap
    /\ lastFormat.op = "balance"
    /\ lastFormat.key = Str_uusdc
    /\ lastFormat.amount = 1500000
    /\ lastFormat.exponent = Undefined

(***************************************************************************)
(* Claims about the pagination                                             *)
(***************************************************************************)
\* C12: after handlePageChange(p) the current page is max(1, min(p,
\* totalPages)): 1 for a page below 1, the last page for a page beyond it,
\* and 1 when there is no token; with 23 tokens and page size 10, page 0
\* gives 1 and page 4 gives 3.
C12_PageClamp ==
    pageRequest # NoRequest =>
        /\ currentPage =
              (IF pageRequest < 1 \/ totalPages < 1 THEN 1
               ELSE IF pageRequest > totalPages THEN totalPages
               ELSE pageRequest)
        /\ (Len(ibcTokens) = 23 /\ itemsPerPage = 10 /\ pageRequest = 0)
              => currentPage = 1
        /\ (Len(ibcTokens) = 23 /\ itemsPerPage = 10 /\ pageRequest = 4)
              => currentPage = 3
        /\ Len(ibcTokens) = 0 => currentPage = 1

\* page 4 was requested with 23 tokens and page size 10
C12_Witness ==
    /\ Len(ibcTokens) = 23
    /\ itemsPerPage = 10
    /\ pageRequest = 4

\* the 0-based indices of the tokens a window shows
WindowIndices(tokens, page, perPage) ==
    {k \in 0..(Len(tokens) - 1) :
        \E j \in 1..Len(PageWindow(tokens, page, perPage)) :
            PageWindow(tokens, page, perPage)[j] = tokens[k + 1]}

\* C13: the window of page p holds the tokens at the 0-based indices
\* (p-1)*itemsPerPage .. min(p*itemsPerPage, n)-1 in their order; the windows
\* of the pages 1..totalPages are pairwise disjoint and cover every token;
\* and the 'Showing start-end' numbers of a window that shows tokens are its
\* first and last index plus one.
C13_PageWindows ==
    LET n == Len(ibcTokens)
        Pages == 1..totalPages
        W(p) == PageWindow(ibcTokens, p, itemsPerPage)
        first(p) == (p - 1) * itemsPerPage
        last(p) == Min(p * itemsPerPage, n) - 1
    IN  /\ \A p \in Pages \cup {currentPage} :
              /\ Len(W(p)) = Max(0, last(p) - first(p) + 1)
              /\ \A j \in 1..Len(W(p)) : W(p)[j] = ibcTokens[first(p) + j]
        /\ \A p, q \in Pages :
              p # q => WindowIndices(ibcTokens, p, itemsPerPage)
                         \cap WindowIndices(ibcTokens, q, itemsPerPage) = {}
        /\ UNION {WindowIndices(ibcTokens, p, itemsPerPage) : p \in Pages}
              = 0..(n - 1)
        /\ paginatedIbcTokens # <<>> =>
              /\ showingStart = first(currentPage) + 1
              /\ showingEnd = last(currentPage) + 1
              /\ paginatedIbcTokens[1] = ibcTokens[showingStart]
              /\ paginatedIbcTokens[Len(paginatedIbcTokens)]
                    = ibcTokens[showingEnd]

\* the last, partial page of 23 tokens with page size 10 is shown
C13_Witness ==
    /\ Len(ibcTokens) = 23
    /\ itemsPerPage = 10
    /\ currentPage = 3
    /\ paginatedIbcTokens = <<21, 22, 23>>

\* C14: once the effects have run, the current page is in 1..totalPages
\* whenever there is a page; a change of the page size is followed by page
\* 1; and when the token set shrinks so that the current page exceeds
\* totalPages, the page becomes 1.
C14_PageInRange ==
    /\ [](pendingEffects = {} /\ totalPages > 0
            => currentPage \in 1..totalPages)
    /\ [][("itemsPerPage" \in pendingEffects) => currentPage' = 1]_vars
    /\ [][(pendingEffects # {} /\ ibcTokens' = ibcTokens
             /\ itemsPerPage' = itemsPerPage
             /\ currentPage > totalPages /\ totalPages > 0)
            => currentPage' = 1]_vars

\* the token set shrank to one page while page 3 was shown, and the reset
\* effect of that render is about to run
C14_Witness ==
    /\ "range" \in pendingEffects
    /\ Len(ibcTokens) = 3
    /\ itemsPerPage = 5
    /\ currentPage = 3

(***************************************************************************)
(* Claims about the decoding of the transactions                           *)
(***************************************************************************)
\* the elements of a sequence that satisfy a test, in order
Decodable(seq) == SelectSeq(seq, LAMBDA x : x.decodes)

\* the decode effect ran on the raw list the view holds
Decoded == ~decodePending /\ transactions # <<>>

\* C15: when the envelope of a transaction decodes, its decoded message list
\* holds the messages decodeMsg succeeded on, in their order, and the
\* transaction is in the decoded set whatever its messages did: with one
\* undecodable message of two the list has length 1, with none decodable the
\* transaction is there with an empty list.
C15_MessageTolerance ==
    Decoded =>
        /\ \A k \in 1..Len(transactions) :
              transactions[k].decodes =>
                  \E j \in 1..Len(decodedTxs) : decodedTxs[j].tx = transactions[k]
        /\ \A j \in 1..Len(decodedTxs) :
              LET good == Decodable(decodedTxs[j].tx.messages)
              IN  /\ Len(decodedTxs[j].msgs) = Len(good)
                  /\ \A m \in 1..Len(good) :
                        decodedTxs[j].msgs[m] = good[m].typeUrl

\* a transaction with one undecodable message of two, and one with no
\* decodable message, are in the decoded set
C15_Witness ==
    /\ Decoded
    /\ Len(decodedTxs) = 2
    /\ Len(decodedTxs[1].tx.messages) = 2
    /\ ~decodedTxs[1].tx.messages[1].decodes
    /\ decodedTxs[1].msgs = <<2>>
    /\ Len(decodedTxs[2].tx.messages) = 2
    /\ decodedTxs[2].msgs = <<>>

\* C16: the transactions of the decoded set are the transactions of the raw
\* list whose envelope decodes, in the order of the raw list; a transaction
\* whose envelope does not decode stays in the raw list and takes no other
\* transaction of the batch out of the decoded set.
C16_EnvelopeTolerance ==
    Decoded =>
        /\ transactions = txData
        /\ Len(decodedTxs) = Len(Decodable(transactions))
        /\ \A j \in 1..Len(decodedTxs) :
              decodedTxs[j].tx = Decodable(transactions)[j]

\* the first transaction of a batch of two has an envelope that does not
\* decode, and the second is decoded
C16_Witness ==
    /\ Decoded
    /\ Len(transactions) = 2
    /\ ~transactions[1].decodes
    /\ Len(decodedTxs) = 1
    /\ decodedTxs[1].tx.hash = 2

(***************************************************************************)
(* Claims about the clients                                                *)
(***************************************************************************)
\* C18: getAssetInfo and getAssetPrices resolve to the empty mapping {} and
\* do not reject when the fetch rejects or the response status is not 2xx.
C18_MetadataDegrades ==
    (/\ lastCall.method \in {"getAssetInfo", "getAssetPrices"}
     /\ \/ lastCall.response.status = NetworkFailure
        \/ lastCall.response.status \notin 200..299) =>
        /\ lastCall.result.settled = "resolved"
        /\ lastCall.result.value.kind = "object"
        /\ lastCall.result.value.entries = <<>>

\* getAssetPrices was called and the service answered 500
C18_Witness ==
    /\ lastCall.method = "getAssetPrices"
    /\ lastCall.response.status = 500
    /\ lastCall.result.settled = "resolved"

(***************************************************************************)
(* Claims about the load effect                                            *)
(***************************************************************************)
\* C17: when the indexer answers 404, getParentSubaccount resolves to a
\* record with the requested address and parentSubaccountNumber and an
\* empty childSubaccounts list, getSubaccounts resolves to an empty
\* subaccount list and getSubaccountAssetPositions to an empty positions
\* list; and the run of the load effect whose getAllSubaccountAssets call
\* was answered 404 sets an empty subaccount-asset list, raises no toast
\* and sets loading to false.
C17_NotFoundIsEmpty ==
    /\ [](\A a \in AccountAddresses, n \in SubaccountNumbers :
            /\ \A response \in ParentResponses(a, n) :
                  response.status = 404 =>
                      LET r == getParentSubaccount(a, n, response)
                      IN  /\ r.settled = "resolved"
                          /\ r.value.subaccount.address = a
                          /\ r.value.subaccount.parentSubaccountNumber = n
                          /\ r.value.subaccount.childSubaccounts
                                = [kind |-> "array", items |-> <<>>]
            /\ \A response \in ParentResponses(a, 0) :
                  response.status = 404 =>
                      LET r == getSubaccounts(a, response)
                      IN  /\ r.settled = "resolved"
                          /\ r.value.subaccounts
                                = [kind |-> "array", items |-> <<>>]
            /\ \A response \in PositionsResponses :
                  response.status = 404 =>
                      LET r == getSubaccountAssetPositions(a, n, response)
                      IN  /\ r.settled = "resolved"
                          /\ r.value.positions = <<>>)
    /\ [][\A l \in Loads : \A response \in ParentResponses(loadAddress[l], 0) :
            (response.status = 404 /\ AssetsSettled(l, response)) =>
                /\ subaccountAssets' = <<>>
                /\ toasts' = toasts
                /\ loading' = FALSE
                /\ pcLoad'[l] = "done"]_vars

\* the indexer answered the getAllSubaccountAssets call of a run with 404
\* and the run has ended
C17_Witness ==
    /\ lastSettle.step = "assets"
    /\ lastSettle.status = 404
    /\ pcLoad[lastSettle.load] = "done"
    /\ subaccountAssets = <<>>
    /\ loading = FALSE
    /\ toasts = 0

\* C19: the step that follows the four chain queries of a run, whatever
\* their outcomes, sets the account, the balances, the staked balance and
\* the transactions to what the chain answered for the run's address, or to
\* the fallbacks null, [], null and [] of the queries that rejected, and it
\* is the step that makes the run's first indexer call; and once a run has
\* started, whatever the indexer and the metadata service answer, loading
\* becomes false.
C19_PrimaryViewNotBlocked ==
    /\ [][\A l \in Loads : \A o \in ChainOutcomes :
            ChainSettled(l, o) =>
                LET a == loadAddress[l]
                IN  /\ account' = (IF o.account THEN a ELSE Null)
                    /\ balances' =
                          (IF o.balances
                           THEN <<[denom |-> Str_adydx, amount |-> 1500000,
                                   owner |-> a]>>
                           ELSE <<>>)
                    /\ stakedBalance' = (IF o.staked THEN a ELSE Null)
                    /\ transactions' =
                          (IF o.txs
                           THEN <<[hash |-> a, decodes |-> TRUE,
                                   messages |-> <<>>]>>
                           ELSE <<>>)]_vars
    /\ [][\A l \in Loads :
            (pcLoad[l] # pcLoad'[l] /\ pcLoad'[l] = "subaccounts")
                => /\ pcLoad[l] = "chain"
                   /\ \E o \in ChainOutcomes : ChainSettled(l, o)]_vars
    /\ (\E l \in Loads : pcLoad[l] # "idle") ~> (loading = FALSE)

\* the balances query of a run rejected, the other three resolved, and the
\* run is awaiting the indexer
C19_Witness ==
    \E l \in Loads :
        /\ pcLoad[l] = "subaccounts"
        /\ account = loadAddress[l]
        /\ balances = <<>>
        /\ stakedBalance = loadAddress[l]
        /\ transactions # <<>>
        /\ transactions[1].hash = loadAddress[l]
        /\ loading = TRUE

\* C20: every invocation of connectClient that ends leaves the component in
\* one of two outcomes: state 'success' with the error flag false, or state
\* 'initial' with the error flag true; it never leaves 'submitting' behind.
C20_TwoOutcomes ==
    [][\A i \in Invocations :
        Ends(i) =>
            \/ result'[i] = "success" /\ state' = "success" /\ error' = FALSE
            \/ result'[i] \in Failures /\ state' = "initial" /\ error' = TRUE]_vars

(***************************************************************************)
(* Claims about the clients and the load effect, continued                 *)
(***************************************************************************)
\* C21: every public method of the indexer client and of the metadata
\* client resolves and never rejects, for every fetch outcome including a
\* 2xx response whose body is not JSON; and when the fetch rejects, the
\* status is not 2xx or the body is not JSON, the result is the method's
\* empty value (empty childSubaccounts, empty subaccounts, empty positions,
\* empty list, empty mapping).
C21_NeverRejects ==
    lastCall.method # "none" =>
        /\ lastCall.result.settled = "resolved"
        /\ (\/ lastCall.response.status \notin 200..299
            \/ lastCall.response.body.kind = "badJson") =>
               CASE lastCall.method = "getParentSubaccount" ->
                        lastCall.result.value.subaccount.childSubaccounts
                            = EmptyChildren
                 [] lastCall.method = "getSubaccounts" ->
                        lastCall.result.value.subaccounts = EmptyChildren
                 [] lastCall.method = "getSubaccountAssetPositions" ->
                        lastCall.result.value.positions = <<>>
                 [] lastCall.method = "getAllSubaccountAssets" ->
                        lastCall.result.value = <<>>
                 [] OTHER -> lastCall.result.value = EmptyMapping

(***************************************************************************)
(* Claims about the native token rows                                      *)
(***************************************************************************)
\* C22: the raw total of a native token row is the exact integer sum of
\* the available raw amount and the delegated raw amount of the same
\* denom, for all amounts including those above 2^53 (and the available
\* amount alone when nothing is delegated in that denom).
C22_ExactTotal ==
    lastTotal.op = "row" =>
        lastTotal.totalAmount =
            IF lastTotal.nativeStakedToken.kind # "null"
               /\ lastTotal.nativeStakedToken.denom = lastTotal.balance.denom
            THEN Add(lastTotal.balance.amount,
                     lastTotal.nativeStakedToken.amount)
            ELSE lastTotal.balance.amount

\* C23: getAllSubaccountAssets returns one entry per child subaccount of
\* the parent response, in the same order and with the same
\* subaccountNumber; the positions of an entry have one element per key of
\* the child's assetPositions object (none when the object is absent), each
\* with the child's subaccountNumber and a non-empty symbol, the position's
\* own when it has one and otherwise the key; without child subaccounts
\* the result is the empty list.
C23_OneEntryPerChild ==
    lastCall.method = "getAllSubaccountAssets" =>
        LET body == lastCall.response.body
            children == body.subaccount.childSubaccounts
            assets == lastCall.result.value
        IN  /\ lastCall.result.settled = "resolved"
            /\ (/\ lastCall.response.status = 200
                /\ body.kind = "object"
                /\ body.subaccount.kind = "object"
                /\ children.kind = "array"
                /\ \A k \in 1..Len(children.items) :
                      children.items[k].kind = "object") =>
                   /\ Len(assets) = Len(children.items)
                   /\ \A k \in 1..Len(assets) :
                        LET child == children.items[k]
                            entries == child.assetPositions.entries
                        IN  /\ assets[k].subaccountNumber
                                  = child.subaccountNumber
                            /\ Len(assets[k].positions) =
                                  IF child.assetPositions.kind = "object"
                                  THEN Len(entries)
                                  ELSE 0
                            /\ \A j \in 1..Len(assets[k].positions) :
                                  LET p == assets[k].positions[j]
                                  IN  /\ p.subaccountNumber
                                            = child.subaccountNumber
                                      /\ p.symbol # <<>>
                                      /\ p.size = entries[j].position.size
                                      /\ p.symbol =
                                            IF entries[j].position.symbol
                                                  # <<>>
                                            THEN entries[j].position.symbol
                                            ELSE entries[j].key
            /\ (\/ lastCall.response.status # 200
                \/ body.kind # "object"
                \/ body.subaccount.kind # "object"
                \/ children.kind # "array"
                \/ children.items = <<>>) => assets = <<>>

\* the parent answer named two children, the first with a position that
\* has a symbol of its own and one more, the second without assetPositions
C23_Witness ==
    /\ lastCall.method = "getAllSubaccountAssets"
    /\ lastCall.result.settled = "resolved"
    /\ Len(lastCall.result.value) = 2
    /\ lastCall.result.value[1].subaccountNumber = 1
    /\ Len(lastCall.result.value[1].positions) = 2
    /\ lastCall.result.value[1].positions[1].symbol = Str_USD
    /\ lastCall.result.value[2].subaccountNumber = 0
    /\ lastCall.result.value[2].positions = <<>>

(***************************************************************************)
(* Claims about the precision resolver, continued                          *)
(***************************************************************************)
\* C24: the exponent formatBalance passes to the conversion and reports in
\* its result is undefined or strictly positive: a metadata record whose
\* resolved precision is 0 or negative never supplies the exponent of a
\* balance.
C24_ExponentPositive ==
    lastFormat.op = "balance" =>
        \/ lastFormat.exponent = Undefined
        \/ lastFormat.exponent > 0

(***************************************************************************)
(* Claims about the decode effect, continued                               *)
(***************************************************************************)
\* C25: once the decode effect has run, every entry of the decoded set
\* refers to a transaction of the current raw transaction list, so the
\* decoded set is empty whenever the raw list is empty.
C25_DecodedFollowsRaw ==
    ~decodePending =>
        /\ \A j \in 1..Len(decodedTxs) :
              \E k \in 1..Len(transactions) :
                  decodedTxs[j].tx = transactions[k]
        /\ transactions = <<>> => decodedTxs = <<>>

(***************************************************************************)
(* Claims about the load effect, continued                                 *)
(***************************************************************************)
\* C26: when the address changes while an earlier load is in flight, then
\* once all requests have completed, in whatever order their responses
\* arrived, the account, the balances, the staked balance and the
\* transactions shown belong to the most recently requested address (or are
\* the fallbacks of its queries that rejected).
C26_LatestLoadWins ==
    (/\ routeAddress # NoAddress
     /\ \A l \in Loads : pcLoad[l] \in {"idle", "done"}) =>
        /\ account \in {Null, routeAddress}
        /\ stakedBalance \in {Null, routeAddress}
        /\ \A k \in 1..Len(balances) : balances[k].owner = routeAddress
        /\ \A k \in 1..Len(transactions) :
              transactions[k].hash = routeAddress

(***************************************************************************)
(* Claims about Connect, continued                                         *)
(***************************************************************************)
\* C27: in every reachable state of the Connect component, for any
\* interleaving of connectClient invocations, the error flag being true
\* implies the UI state is not 'success'.
C27_ErrorExcludesSuccess == error => state # "success"

\* C28: the latest-block and latest-tx slots hold null or an event
\* delivered by the subscription whose handle is stored in the store: a
\* callback writes a slot or appends to a log only when its subscription's
\* handle is the one stored for its stream, and whenever the stored handle
\* of a stream changes the slot of that stream is null.
C28_OnlyStoredSubscriptionWrites ==
    /\ [][\A h \in Invocations :
            /\ DeliverNewBlock(h) => subsNewBlock = h
            /\ DeliverTx(h) => subsTxEvent = h]_vars
    /\ [][/\ subsNewBlock' # subsNewBlock => newBlock' = Null
          /\ subsTxEvent' # subsTxEvent => txEvent' = Null]_vars

(***************************************************************************)
(* Claims about the pagination, continued                                  *)
(***************************************************************************)
\* C29: whenever totalPages > 1 and the current page is in 1..totalPages,
\* the page-number buttons show exactly min(5, totalPages) distinct
\* consecutive page numbers, all within 1..totalPages, and the current
\* page is one of them.
C29_PageButtons ==
    (totalPages > 1 /\ currentPage \in 1..totalPages) =>
        /\ Len(pageButtons) = Min(5, totalPages)
        /\ \A k \in 1..(Len(pageButtons) - 1) :
              pageButtons[k + 1] = pageButtons[k] + 1
        /\ \A k \in 1..Len(pageButtons) : pageButtons[k] \in 1..totalPages
        /\ \E k \in 1..Len(pageButtons) : pageButtons[k] = currentPage

\* eight pages with the fifth current: the buttons are centred on it
C29_Witness ==
    /\ pendingEffects = {}
    /\ totalPages = 8
    /\ currentPage = 5
    /\ pageButtons = <<3, 4, 5, 6, 7>>

====
